---- MODULE Spec2Model ----
(***************************************************************************)
(* Model of stack-operator/pkg/dev/portforward/pod_forwarder.go:           *)
(* the podForwarder readiness gate (initChan), its Run lifecycle, the      *)
(* watcher goroutine started by Run, and concurrent DialContext callers.   *)
(* Strings are sequences of one-character strings.                         *)
(***************************************************************************)
EXTENDS Integers, Sequences, FiniteSets, TLC

(* ------------------------------ bounds --------------------------------- *)

\* longest address handed to NewPodForwarder
MaxAddrLen == 3
\* number of concurrent DialContext callers
NumDialers == 2

Chars == {"a", ".", ":"}
Networks == {"tcp"}
\* ports the ephemeral port finder may return
LocalPorts == {<<"8">>, <<"9">>}

Addrs == UNION {[1..n -> Chars] : n \in 0..MaxAddrLen}
Dialers == 1..NumDialers

(* ------------------------------ values --------------------------------- *)

Err(msg, arg, c) == [msg |-> msg, arg |-> arg, ctx |-> c]
NilErr == Err("nil", <<>>, 0)

\* fmt.Errorf("unsupported pod address format: %s", addr)
ErrUnsupported(addr) == Err("unsupported pod address format", addr, 0)
\* errors of net.SplitHostPort
ErrMissingPort(addr) == Err("missing port in address", addr, 0)
ErrTooManyColons(addr) == Err("too many colons in address", addr, 0)
\* errors of the injected collaborators
ErrPortFinder == Err("port finder failed", <<>>, 0)
ErrFactory == Err("port forwarder factory failed", <<>>, 0)
ErrForward == Err("forwarding failed", <<>>, 0)
\* errors.New("not currently forwarding")
ErrNotForwarding == Err("not currently forwarding", <<>>, 0)
\* a torn read of f.viaErr while line 223 writes it
ErrTorn == Err("torn interface value", <<>>, 0)
\* ctx.Err() of the context handed to DialContext call d
CtxErr(d) == Err("context canceled", <<>>, d)

\* "127.0.0.1:"
Loopback == <<"1", "2", "7", ".", "0", ".", "0", ".", "1", ":">>

NoResult == [kind |-> "none", err |-> NilErr, network |-> "", address |-> <<>>, conn |-> FALSE]
ErrResult(e) == [kind |-> "err", err |-> e, network |-> "", address |-> <<>>, conn |-> FALSE]
DialResult(n, a, ok) == [kind |-> "dial", err |-> NilErr, network |-> n, address |-> a, conn |-> ok]

(* --------------------------- string helpers ---------------------------- *)

\* strings.Index for a one-character separator: first position of c in s, 0 if none
IndexOf(s, c) ==
    IF \E i \in 1..Len(s) : s[i] = c
    THEN CHOOSE i \in 1..Len(s) : s[i] = c /\ \A j \in 1..(i - 1) : s[j] # c
    ELSE 0

\* strings.LastIndexByte: last position of c in s, 0 if none
LastIndexOf(s, c) ==
    IF \E i \in 1..Len(s) : s[i] = c
    THEN CHOOSE i \in 1..Len(s) : s[i] = c /\ \A j \in (i + 1)..Len(s) : s[j] # c
    ELSE 0

\* strings.SplitN(s, sep, n) for n > 0: at most n parts, the last one the unsplit rest
RECURSIVE SplitN(_, _, _)
SplitN(s, sep, n) ==
    LET i == IndexOf(s, sep) IN
    IF n <= 1 \/ i = 0
    THEN <<s>>
    ELSE <<SubSeq(s, 1, i - 1)>> \o SplitN(SubSeq(s, i + 1, Len(s)), sep, n - 1)

\* net.SplitHostPort for addresses without brackets
SplitHostPort(hostport) ==
    LET i == LastIndexOf(hostport, ":")
        host == SubSeq(hostport, 1, i - 1)
    IN  IF i = 0
        THEN [host |-> <<>>, port |-> <<>>, err |-> ErrMissingPort(hostport)]
        ELSE IF IndexOf(host, ":") # 0
        THEN [host |-> <<>>, port |-> <<>>, err |-> ErrTooManyColons(hostport)]
        ELSE [host |-> host, port |-> SubSeq(hostport, i + 1, Len(hostport)), err |-> NilErr]

parsePodAddrAcceptAll(addr) ==
    LET parts == SplitN(addr, ".", 3) IN
    [name |-> parts[1],
     namespace |-> IF Len(parts) >= 2 THEN parts[2] ELSE <<>>,
     err |-> NilErr]

parsePodAddrSwapped(addr) ==
    LET parts == SplitN(addr, ".", 3) IN
    IF Len(parts) <= 2
    THEN [name |-> <<>>, namespace |-> <<>>, err |-> ErrUnsupported(addr)]
    ELSE [name |-> parts[2], namespace |-> parts[1], err |-> NilErr]

\* parsePodAddr: name and namespace are the first two of at most three parts
parsePodAddr(addr) ==
    LET parts == SplitN(addr, ".", 3) IN
    IF Len(parts) <= 2
    THEN [name |-> <<>>, namespace |-> <<>>, err |-> ErrUnsupported(addr)]
    ELSE [name |-> parts[1], namespace |-> parts[2], err |-> NilErr]

(* ------------------------------- state --------------------------------- *)

VARIABLES
    args,       \* the (network, addr) NewPodForwarder is called with
    newRes,     \* "pending" | "ok" | "err": outcome of NewPodForwarder
    newErr,     \* the error NewPodForwarder returned
    f,          \* immutable fields of the podForwarder
    initChan,   \* "none" | "open" | "closed"
    viaErr,     \* f.viaErr
    viaAddr,    \* f.viaAddr
    closeCalls, \* executions of close(f.initChan)
    panicked,   \* a close of the closed initChan panicked: the program has crashed
    hbViaErr,   \* initChan was closed after viaErr was written (the write happens before every receive)
    ctxDone,    \* the context handed to Run is cancelled
    pc,         \* position of Run
    runCtxDone, \* runCtx.Done() is closed
    once,       \* initCloser has run its function
    port,       \* remote port split from f.addr
    localPort,  \* port returned by ephemeralPortFinder
    fwdPorts,   \* the port mapping handed to the factory
    readyChan,  \* "none" | "open" | "closed"
    session,    \* "none" | "created" | "running" | "terminated"
    err,        \* Run's local err
    ret,        \* whether Run has returned, and the error it returned
    wpc,        \* position of the watcher goroutine
    cancelFirst,\* Run's context was cancelled while readyChan was not closed
    dpc,        \* position of each DialContext call
    dctx,       \* each DialContext call's context is done
    dcallAt,    \* what held when each DialContext call was made
    dials,      \* invocations of dialerFunc by each call
    dres        \* result of each DialContext call

fvars == <<args, newRes, newErr, f, initChan, viaErr, viaAddr, closeCalls, panicked, hbViaErr>>
rvars == <<ctxDone, pc, runCtxDone, once, port, localPort, fwdPorts, readyChan,
           session, err, ret, wpc, cancelFirst>>
dvars == <<dpc, dctx, dcallAt, dials, dres>>
vars == <<fvars, rvars, dvars>>

NoForwarder == [network |-> "", addr |-> <<>>, podName |-> <<>>, namespace |-> <<>>]
NoCall == [made |-> FALSE, returned |-> FALSE, terminated |-> FALSE, viaErrSet |-> FALSE,
           ready |-> FALSE, ctx |-> FALSE]

Init ==
    /\ args \in [network : Networks, addr : Addrs]
    /\ newRes = "pending"
    /\ newErr = NilErr
    /\ f = NoForwarder
    /\ initChan = "none"
    /\ viaErr = NilErr
    /\ viaAddr = <<>>
    /\ closeCalls = 0
    /\ panicked = FALSE
    /\ hbViaErr = FALSE
    /\ ctxDone = FALSE
    /\ pc = "idle"
    /\ runCtxDone = FALSE
    /\ once = FALSE
    /\ port = <<>>
    /\ localPort = <<>>
    /\ fwdPorts = <<>>
    /\ readyChan = "none"
    /\ session = "none"
    /\ err = NilErr
    /\ ret = [done |-> FALSE, err |-> NilErr]
    /\ wpc = "none"
    /\ cancelFirst = FALSE
    /\ dpc = [d \in Dialers |-> "idle"]
    /\ dctx = [d \in Dialers |-> FALSE]
    /\ dcallAt = [d \in Dialers |-> NoCall]
    /\ dials = [d \in Dialers |-> 0]
    /\ dres = [d \in Dialers |-> NoResult]

(* --------------------------- NewPodForwarder --------------------------- *)

NewPodForwarder ==
    /\ ~panicked
    /\ newRes = "pending"
    /\ LET r == parsePodAddr(args.addr) IN
       IF r.err # NilErr
       THEN /\ newRes' = "err"
            /\ newErr' = r.err
            /\ UNCHANGED <<f, initChan>>
       ELSE /\ newRes' = "ok"
            /\ newErr' = NilErr
            /\ f' = [network |-> args.network, addr |-> args.addr,
                     podName |-> r.name, namespace |-> r.namespace]
            /\ initChan' = "open"
    /\ UNCHANGED <<args, viaErr, viaAddr, closeCalls, panicked, hbViaErr>>
    /\ UNCHANGED <<rvars, dvars>>

(* -------------------------- the gate's closer -------------------------- *)

\* close(f.initChan): closing a closed channel panics
CloseInitChan ==
    /\ closeCalls' = closeCalls + 1
    /\ IF initChan = "closed"
       THEN panicked' = TRUE /\ UNCHANGED <<initChan, hbViaErr>>
       ELSE initChan' = "closed" /\ hbViaErr' = (viaErr # NilErr) /\ UNCHANGED panicked

InitCloserDoUnguarded ==
    /\ once' = TRUE
    /\ CloseInitChan

\* initCloser.Do(func() { close(f.initChan) }): sync.Once runs the function the first time only
InitCloserDo ==
    IF once
    THEN UNCHANGED <<once, initChan, closeCalls, panicked, hbViaErr>>
    ELSE /\ once' = TRUE
         /\ CloseInitChan

(* -------------------------------- Run ---------------------------------- *)

\* Run is entered: initCloser, the deferred calls and runCtx are set up
RunCall ==
    /\ ~panicked
    /\ newRes = "ok"
    /\ pc = "idle"
    /\ pc' = "l184"
    /\ once' = FALSE
    /\ runCtxDone' = ctxDone
    /\ UNCHANGED <<ctxDone, port, localPort, fwdPorts, readyChan, session, err, ret,
                   wpc, cancelFirst>>
    /\ UNCHANGED <<fvars, dvars>>

\* _, port, err := net.SplitHostPort(f.addr)
RunSplitHostPort ==
    /\ ~panicked
    /\ pc = "l184"
    /\ LET r == SplitHostPort(f.addr) IN
       IF r.err # NilErr
       THEN /\ err' = r.err
            /\ pc' = "dCancel"
            /\ UNCHANGED port
       ELSE /\ port' = r.port
            /\ pc' = "l190"
            /\ UNCHANGED err
    /\ UNCHANGED <<ctxDone, runCtxDone, once, localPort, fwdPorts, readyChan, session,
                   ret, wpc, cancelFirst>>
    /\ UNCHANGED <<fvars, dvars>>

\* localPort, err := f.ephemeralPortFinder()
RunFindPort ==
    /\ ~panicked
    /\ pc = "l190"
    /\ \/ \E p \in LocalPorts :
            /\ localPort' = p
            /\ pc' = "l196"
            /\ UNCHANGED err
       \/ /\ err' = ErrPortFinder
          /\ pc' = "dCancel"
          /\ UNCHANGED localPort
    /\ UNCHANGED <<ctxDone, runCtxDone, once, port, fwdPorts, readyChan, session,
                   ret, wpc, cancelFirst>>
    /\ UNCHANGED <<fvars, dvars>>

\* readyChan := make(chan struct{}); fwd, err := f.portForwarderFactory.NewPortForwarder(...)
RunFactory ==
    /\ ~panicked
    /\ pc = "l196"
    /\ readyChan' = "open"
    /\ fwdPorts' = localPort \o <<":">> \o port
    /\ \/ /\ session' = "created"
          /\ pc' = "l207"
          /\ UNCHANGED err
       \/ /\ err' = ErrFactory
          /\ pc' = "dCancel"
          /\ UNCHANGED session
    /\ UNCHANGED <<ctxDone, runCtxDone, once, port, localPort, ret, wpc, cancelFirst>>
    /\ UNCHANGED <<fvars, dvars>>

RunGoAfterFactoryError ==
    /\ ~panicked
    /\ pc = "l207" \/ (pc = "dCancel" /\ err = ErrFactory /\ wpc = "none")
    /\ wpc' = "select"
    /\ pc' = IF pc = "l207" THEN "l222" ELSE pc
    /\ UNCHANGED <<ctxDone, runCtxDone, once, port, localPort, fwdPorts, readyChan,
                   session, err, ret, cancelFirst>>
    /\ UNCHANGED <<fvars, dvars>>

\* go func() { select {...} }()
RunGo ==
    /\ ~panicked
    /\ pc = "l207"
    /\ wpc' = "select"
    /\ pc' = "l222"
    /\ UNCHANGED <<ctxDone, runCtxDone, once, port, localPort, fwdPorts, readyChan,
                   session, err, ret, cancelFirst>>
    /\ UNCHANGED <<fvars, dvars>>

\* fwd.ForwardPorts() is called and blocks
RunForwardPorts ==
    /\ ~panicked
    /\ pc = "l222"
    /\ pc' = "fwd"
    /\ session' = "running"
    /\ UNCHANGED <<ctxDone, runCtxDone, once, port, localPort, fwdPorts, readyChan,
                   err, ret, wpc, cancelFirst>>
    /\ UNCHANGED <<fvars, dvars>>

\* fwd.ForwardPorts() returns, with nil or with an error
ForwardPortsReturn ==
    /\ ~panicked
    /\ pc = "fwd"
    /\ \E e \in {NilErr, ErrForward} : err' = e
    /\ pc' = "l223"
    /\ session' = "terminated"
    /\ UNCHANGED <<ctxDone, runCtxDone, once, port, localPort, fwdPorts, readyChan,
                   ret, wpc, cancelFirst>>
    /\ UNCHANGED <<fvars, dvars>>

RunSetViaErrSkipped ==
    /\ ~panicked
    /\ pc = "l223"
    /\ pc' = "dCancel"
    /\ UNCHANGED <<fvars, dvars>>
    /\ UNCHANGED <<ctxDone, runCtxDone, once, port, localPort, fwdPorts, readyChan,
                   session, err, ret, wpc, cancelFirst>>

\* f.viaErr = errors.New("not currently forwarding")
RunSetViaErr ==
    /\ ~panicked
    /\ pc = "l223"
    /\ viaErr' = ErrNotForwarding
    /\ pc' = "dCancel"
    /\ UNCHANGED <<args, newRes, newErr, f, initChan, viaAddr, closeCalls, panicked, hbViaErr>>
    /\ UNCHANGED <<ctxDone, runCtxDone, once, port, localPort, fwdPorts, readyChan,
                   session, err, ret, wpc, cancelFirst>>
    /\ UNCHANGED dvars

RunDeferCancelSkipped ==
    /\ ~panicked
    /\ pc = "dCancel"
    /\ pc' = "dClose"
    /\ UNCHANGED <<ctxDone, runCtxDone, once, port, localPort, fwdPorts, readyChan, session,
                   err, ret, wpc, cancelFirst>>
    /\ UNCHANGED <<fvars, dvars>>

\* return: the deferred runCtxCancel()
RunDeferCancel ==
    /\ ~panicked
    /\ pc = "dCancel"
    /\ runCtxDone' = TRUE
    /\ pc' = "dClose"
    /\ UNCHANGED <<ctxDone, once, port, localPort, fwdPorts, readyChan, session, err,
                   ret, wpc, cancelFirst>>
    /\ UNCHANGED <<fvars, dvars>>

RunDeferCloseSkipped ==
    /\ ~panicked
    /\ pc = "dClose"
    /\ pc' = "returned"
    /\ ret' = [done |-> TRUE, err |-> err]
    /\ UNCHANGED <<once, initChan, closeCalls, panicked, hbViaErr>>
    /\ UNCHANGED <<args, newRes, newErr, f, viaErr, viaAddr>>
    /\ UNCHANGED <<ctxDone, runCtxDone, port, localPort, fwdPorts, readyChan, session,
                   err, wpc, cancelFirst>>
    /\ UNCHANGED dvars

\* return: the deferred initCloser.Do, then Run returns err
RunDeferClose ==
    /\ ~panicked
    /\ pc = "dClose"
    /\ InitCloserDo
    /\ IF panicked'
       THEN pc' = "panic" /\ UNCHANGED ret
       ELSE pc' = "returned" /\ ret' = [done |-> TRUE, err |-> err]
    /\ UNCHANGED <<args, newRes, newErr, f, viaErr, viaAddr>>
    /\ UNCHANGED <<ctxDone, runCtxDone, port, localPort, fwdPorts, readyChan, session,
                   err, wpc, cancelFirst>>
    /\ UNCHANGED dvars

CancelRunNoPropagation ==
    /\ ~panicked
    /\ ~ctxDone
    /\ ctxDone' = TRUE
    /\ cancelFirst' = (readyChan # "closed")
    /\ UNCHANGED <<pc, runCtxDone, once, port, localPort, fwdPorts, readyChan, session,
                   err, ret, wpc>>
    /\ UNCHANGED <<fvars, dvars>>

\* the caller cancels the context handed to Run; runCtx, derived from it, is cancelled with it
CancelRun ==
    /\ ~panicked
    /\ ~ctxDone
    /\ ctxDone' = TRUE
    /\ runCtxDone' = (runCtxDone \/ pc # "idle")
    /\ cancelFirst' = (readyChan # "closed")
    /\ UNCHANGED <<pc, once, port, localPort, fwdPorts, readyChan, session, err, ret, wpc>>
    /\ UNCHANGED <<fvars, dvars>>

\* the session closes readyChan, at most once
SessionReady ==
    /\ ~panicked
    /\ session # "none"
    /\ readyChan = "open"
    /\ readyChan' = "closed"
    /\ UNCHANGED <<ctxDone, pc, runCtxDone, once, port, localPort, fwdPorts, session,
                   err, ret, wpc, cancelFirst>>
    /\ UNCHANGED <<fvars, dvars>>

(* ------------------------ the watcher goroutine ------------------------ *)

\* select { case <-runCtx.Done(): case <-readyChan: ... }
WatchSelect ==
    /\ ~panicked
    /\ wpc = "select"
    /\ \/ /\ runCtxDone
          /\ wpc' = "exitDone"
       \/ /\ readyChan = "closed"
          /\ wpc' = "l211"
    /\ UNCHANGED <<ctxDone, pc, runCtxDone, once, port, localPort, fwdPorts, readyChan,
                   session, err, ret, cancelFirst>>
    /\ UNCHANGED <<fvars, dvars>>

WatchSetViaAddrNoPort ==
    /\ ~panicked
    /\ wpc = "l211"
    /\ viaAddr' = Loopback
    /\ wpc' = "l216"
    /\ UNCHANGED <<args, newRes, newErr, f, initChan, viaErr, closeCalls, panicked, hbViaErr>>
    /\ UNCHANGED <<ctxDone, pc, runCtxDone, once, port, localPort, fwdPorts, readyChan,
                   session, err, ret, cancelFirst>>
    /\ UNCHANGED dvars

\* f.viaAddr = "127.0.0.1:" + localPort
WatchSetViaAddr ==
    /\ ~panicked
    /\ wpc = "l211"
    /\ viaAddr' = Loopback \o localPort
    /\ wpc' = "l216"
    /\ UNCHANGED <<args, newRes, newErr, f, initChan, viaErr, closeCalls, panicked, hbViaErr>>
    /\ UNCHANGED <<ctxDone, pc, runCtxDone, once, port, localPort, fwdPorts, readyChan,
                   session, err, ret, cancelFirst>>
    /\ UNCHANGED dvars

\* defer initCloser.Do(func() { close(f.initChan) }), run as the goroutine's function returns
WatchClose ==
    /\ ~panicked
    /\ wpc = "l216"
    /\ InitCloserDo
    /\ wpc' = IF panicked' THEN "panic" ELSE "exitReady"
    /\ UNCHANGED <<args, newRes, newErr, f, viaErr, viaAddr>>
    /\ UNCHANGED <<ctxDone, pc, runCtxDone, port, localPort, fwdPorts, readyChan,
                   session, err, ret, cancelFirst>>
    /\ UNCHANGED dvars

(* ----------------------------- DialContext ---------------------------- *)

\* DialContext is called by caller d
DialCall(d) ==
    /\ ~panicked
    /\ newRes = "ok"
    /\ dpc[d] = "idle"
    /\ dpc' = [dpc EXCEPT ![d] = "select"]
    /\ dcallAt' = [dcallAt EXCEPT ![d] =
                     [made |-> TRUE,
                      returned |-> ret.done,
                      terminated |-> (session = "terminated"),
                      viaErrSet |-> (viaErr # NilErr),
                      ready |-> (readyChan = "closed"),
                      ctx |-> dctx[d]]]
    /\ UNCHANGED <<dctx, dials, dres>>
    /\ UNCHANGED <<fvars, rvars>>

DialSelectGateOnly(d) ==
    /\ ~panicked
    /\ dpc[d] = "select"
    /\ initChan = "closed"
    /\ dpc' = [dpc EXCEPT ![d] = "l152"]
    /\ UNCHANGED <<dctx, dcallAt, dials, dres>>
    /\ UNCHANGED <<fvars, rvars>>

DialSelectCancelsRun(d) ==
    /\ ~panicked
    /\ dpc[d] = "select"
    /\ initChan = "closed" \/ dctx[d]
    /\ dpc' = [dpc EXCEPT ![d] = "l152"]
    /\ runCtxDone' = (runCtxDone \/ dctx[d])
    /\ UNCHANGED <<dctx, dcallAt, dials, dres>>
    /\ UNCHANGED <<ctxDone, pc, once, port, localPort, fwdPorts, readyChan, session,
                   err, ret, wpc, cancelFirst>>
    /\ UNCHANGED fvars

\* select { case <-f.initChan: case <-ctx.Done(): }
DialSelect(d) ==
    /\ ~panicked
    /\ dpc[d] = "select"
    /\ initChan = "closed" \/ dctx[d]
    /\ dpc' = [dpc EXCEPT ![d] = "l152"]
    /\ UNCHANGED <<dctx, dcallAt, dials, dres>>
    /\ UNCHANGED <<fvars, rvars>>

DialCheckCtxIgnored(d) ==
    /\ ~panicked
    /\ dpc[d] = "l152"
    /\ dpc' = [dpc EXCEPT ![d] = "l157"]
    /\ UNCHANGED <<dctx, dcallAt, dials, dres>>
    /\ UNCHANGED <<fvars, rvars>>

\* if ctx.Err() != nil { return nil, ctx.Err() }
DialCheckCtx(d) ==
    /\ ~panicked
    /\ dpc[d] = "l152"
    /\ IF dctx[d]
       THEN /\ dpc' = [dpc EXCEPT ![d] = "done"]
            /\ dres' = [dres EXCEPT ![d] = ErrResult(CtxErr(d))]
       ELSE /\ dpc' = [dpc EXCEPT ![d] = "l157"]
            /\ UNCHANGED dres
    /\ UNCHANGED <<dctx, dcallAt, dials>>
    /\ UNCHANGED <<fvars, rvars>>

\* The values a read of f.viaErr by call d can yield. The write of line 223 is ordered
\* before the read when initChan was closed after it (the receive of line 147 follows the
\* close) or when the call was made after Run returned. Otherwise the read races with
\* the write: it yields the old value, the new one, or a torn interface value
\* (type word of the new value, nil data word), which is non-nil.
ViaErrReads(d) ==
    IF viaErr = NilErr \/ hbViaErr \/ dcallAt[d].returned
    THEN {viaErr}
    ELSE {NilErr, viaErr, ErrTorn}

\* if f.viaErr != nil { return nil, f.viaErr }
DialCheckViaErr(d) ==
    /\ ~panicked
    /\ dpc[d] = "l157"
    /\ \E e \in ViaErrReads(d) :
          IF e # NilErr
          THEN /\ dpc' = [dpc EXCEPT ![d] = "done"]
               /\ dres' = [dres EXCEPT ![d] = ErrResult(e)]
          ELSE /\ dpc' = [dpc EXCEPT ![d] = "l162"]
               /\ UNCHANGED dres
    /\ UNCHANGED <<dctx, dcallAt, dials>>
    /\ UNCHANGED <<fvars, rvars>>

\* f.dialerFunc(ctx, f.network, f.viaAddr) is invoked
DialInvoke(d) ==
    /\ ~panicked
    /\ dpc[d] = "l162"
    /\ dpc' = [dpc EXCEPT ![d] = "dialing"]
    /\ dials' = [dials EXCEPT ![d] = @ + 1]
    /\ dres' = [dres EXCEPT ![d] = DialResult(f.network, viaAddr, FALSE)]
    /\ UNCHANGED <<dctx, dcallAt>>
    /\ UNCHANGED <<fvars, rvars>>

\* dialerFunc returns a connection or an error, which DialContext returns
DialReturn(d) ==
    /\ ~panicked
    /\ dpc[d] = "dialing"
    /\ dpc' = [dpc EXCEPT ![d] = "done"]
    /\ \E ok \in BOOLEAN : dres' = [dres EXCEPT ![d].conn = ok]
    /\ UNCHANGED <<dctx, dcallAt, dials>>
    /\ UNCHANGED <<fvars, rvars>>

\* the caller cancels the context of its DialContext call, or its deadline passes
CancelDial(d) ==
    /\ ~panicked
    /\ ~dctx[d]
    /\ dpc[d] # "done"
    /\ dctx' = [dctx EXCEPT ![d] = TRUE]
    /\ UNCHANGED <<dpc, dcallAt, dials, dres>>
    /\ UNCHANGED <<fvars, rvars>>

(* --------------------------- specifications ---------------------------- *)

RunStep ==
    \/ RunCall
    \/ RunSplitHostPort
    \/ RunFindPort
    \/ RunFactory
    \/ RunGo
    \/ RunForwardPorts
    \/ RunSetViaErr
    \/ RunDeferCancel
    \/ RunDeferClose

WatchStep ==
    \/ WatchSelect
    \/ WatchSetViaAddr
    \/ WatchClose

DialStep(d) ==
    \/ DialCall(d)
    \/ DialSelect(d)
    \/ DialCheckCtx(d)
    \/ DialCheckViaErr(d)
    \/ DialInvoke(d)
    \/ DialReturn(d)

Next ==
    \/ NewPodForwarder
    \/ RunStep
    \/ WatchStep
    \/ ForwardPortsReturn
    \/ SessionReady
    \/ CancelRun
    \/ \E d \in Dialers : DialStep(d)
    \/ \E d \in Dialers : CancelDial(d)

Spec == Init /\ [][Next]_vars

\* One DialContext caller beside Run: calls do not act on each other (C8), so what holds
\* of a single call is checked with one
OneCaller == {1}

NextCall ==
    \/ NewPodForwarder
    \/ RunStep
    \/ WatchStep
    \/ ForwardPortsReturn
    \/ SessionReady
    \/ CancelRun
    \/ \E d \in OneCaller : DialStep(d)
    \/ \E d \in OneCaller : CancelDial(d)

SpecCall == Init /\ [][NextCall]_vars

\* what a DialContext call does once it is entered
DialProgress(d) ==
    \/ DialSelect(d)
    \/ DialCheckCtx(d)
    \/ DialCheckViaErr(d)
    \/ DialInvoke(d)
    \/ DialReturn(d)

\* A caller's goroutine that can take a step eventually takes it; nothing is assumed of
\* Run, the watcher or the session, so the gate may stay open for ever.
SpecWait ==
    /\ Init
    /\ [][NextCall]_vars
    /\ \A d \in OneCaller : WF_vars(DialProgress(d))

\* Run and its collaborators alone: no DialContext call is made
RunNext ==
    \/ NewPodForwarder
    \/ RunStep
    \/ WatchStep
    \/ ForwardPortsReturn
    \/ SessionReady
    \/ CancelRun

\* what Run does once it is entered
RunProgress ==
    \/ RunSplitHostPort
    \/ RunFindPort
    \/ RunFactory
    \/ RunGo
    \/ RunForwardPorts
    \/ RunSetViaErr
    \/ RunDeferCancel
    \/ RunDeferClose

\* Goroutines that can take a step eventually take it, and a session's ForwardPorts
\* returns once the run context it was created with is cancelled.
SpecRun ==
    /\ Init
    /\ [][RunNext]_vars
    /\ WF_vars(RunProgress)
    /\ WF_vars(WatchStep)
    /\ WF_vars(runCtxDone /\ ForwardPortsReturn)

\* Run is entered a second time on the same forwarder, with the same context, after the
\* first call returned and its watcher goroutine exited: the new call has a fresh
\* initCloser and fresh locals, the forwarder's fields are as the first call left them
RunAgain ==
    /\ ~panicked
    /\ pc = "returned"
    /\ wpc \in {"none", "exitDone", "exitReady"}
    /\ pc' = "l184"
    /\ once' = FALSE
    /\ runCtxDone' = ctxDone
    /\ port' = <<>>
    /\ localPort' = <<>>
    /\ fwdPorts' = <<>>
    /\ readyChan' = "none"
    /\ session' = "none"
    /\ err' = NilErr
    /\ ret' = [done |-> FALSE, err |-> NilErr]
    /\ wpc' = "none"
    /\ UNCHANGED <<ctxDone, cancelFirst>>
    /\ UNCHANGED <<fvars, dvars>>

NextRerun ==
    \/ NewPodForwarder
    \/ RunStep
    \/ WatchStep
    \/ ForwardPortsReturn
    \/ SessionReady
    \/ CancelRun
    \/ RunAgain

\* Run may be called again on the same forwarder
SpecRerun == Init /\ [][NextRerun]_vars

(* ------------------------------- claims -------------------------------- *)

\* number of '.'-separated components of an address
NumComponents(addr) == 1 + Cardinality({i \in 1..Len(addr) : addr[i] = "."})

\* Run returned an error of one of its early paths
EarlyErr(e) ==
    e.msg \in {"missing port in address", "too many colons in address",
               "port finder failed", "port forwarder factory failed"}

\* call d has not got to the dial function
NoDial(d) == dpc[d] \notin {"l162", "dialing"} /\ dres[d].kind # "dial"

\* C1: whenever Run has returned, on any path, initChan is closed, so every DialContext
\* call still waiting at the gate can take its next step.
C1_GateClosedWhenRunReturns ==
    ret.done =>
        /\ initChan = "closed"
        /\ \A d \in Dialers : dpc[d] = "select" => ENABLED DialSelect(d)

\* Run returned a factory error while a caller with a live context waits at the gate
C1_Witness ==
    /\ ret.done
    /\ ret.err = ErrFactory
    /\ \E d \in Dialers : dpc[d] = "select" /\ ~dctx[d]

\* C2: within one Run, close(initChan) is executed at most once and never panics,
\* whatever the order of the watcher's ready branch and Run's deferred close.
C2_CloseAtMostOnce ==
    closeCalls <= 1 /\ ~panicked

\* the context was cancelled, the watcher took its ready branch and Run's deferred close ran too
C2_Witness ==
    /\ wpc = "exitReady"
    /\ ret.done
    /\ ctxDone
    /\ closeCalls = 1

\* C3: after Run returned early with an error, every DialContext call made afterwards
\* with a live context returns a non-nil error and never gets to the dial function.
C3_EarlyReturnFailsDials ==
    \A d \in Dialers :
        (ret.done /\ EarlyErr(ret.err) /\ dcallAt[d].returned /\ ~dctx[d]) =>
            /\ NoDial(d)
            /\ dpc[d] = "done" => (dres[d].kind = "err" /\ dres[d].err # NilErr)

\* C4 as claimed: every DialContext call made after ForwardPorts returned, with a live
\* context, returns the "not currently forwarding" error without dialling, and viaErr
\* is never cleared.
C4_AfterTermination ==
    /\ [](\A d \in Dialers :
            (dcallAt[d].terminated /\ ~dctx[d]) =>
                /\ NoDial(d)
                /\ dpc[d] = "done" => dres[d] = ErrResult(ErrNotForwarding))
    /\ [][viaErr # NilErr => viaErr' = viaErr]_vars

\* C4 as amended: every DialContext call made after Run returned from ForwardPorts,
\* with a live context, returns the "not currently forwarding" error without dialling,
\* and viaErr is never cleared.
C4_AfterRunReturned ==
    /\ [](\A d \in Dialers :
            (dcallAt[d].returned /\ session = "terminated" /\ ~dctx[d]) =>
                /\ NoDial(d)
                /\ dpc[d] = "done" => dres[d] = ErrResult(ErrNotForwarding))
    /\ [][viaErr # NilErr => viaErr' = viaErr]_vars

\* the gate had been resolved ready, the session ended, Run returned, and a later call got the error
C4_Witness ==
    \E d \in Dialers :
        /\ dcallAt[d].returned
        /\ session = "terminated"
        /\ wpc = "exitReady"
        /\ viaAddr # <<>>
        /\ dpc[d] = "done"
        /\ ~dctx[d]

\* C5: once Run's context was cancelled before the session signalled ready, no
\* DialContext call gets to the dial function: each returns an error.
C5_CancelBeforeReadyNeverDials ==
    cancelFirst =>
        \A d \in Dialers :
            /\ NoDial(d)
            /\ dpc[d] = "done" => dres[d].kind = "err"

\* C6: the dial function is not invoked while initChan is open, and at most once per
\* call; a call made before readiness with a live context that has passed the gate of a
\* ready, still forwarding session has invoked the dial function exactly once, with the
\* forwarder's network and 127.0.0.1:<the port the finder returned>.
C6_DialsResolvedAddress ==
    \A d \in Dialers :
        /\ dials[d] > 0 => initChan = "closed"
        /\ dials[d] <= 1
        /\ (/\ dpc[d] \in {"dialing", "done"}
            /\ ~dctx[d]
            /\ ~dcallAt[d].ready
            /\ readyChan = "closed"
            /\ session # "terminated") =>
                /\ dres[d].kind = "dial"
                /\ dres[d].network = f.network
                /\ dres[d].address = Loopback \o localPort
                /\ dials[d] = 1

\* a call made before the session was ready got its connection while the session forwards
C6_Witness ==
    \E d \in Dialers :
        /\ dpc[d] = "done"
        /\ ~dctx[d]
        /\ ~dcallAt[d].ready
        /\ readyChan = "closed"
        /\ session = "running"
        /\ dres[d].conn
        /\ dres[d].address = Loopback \o <<"9">>

\* C7: a DialContext call whose context is done when the call is made, or becomes done
\* while the call waits at the gate or before its check of line 152, returns that
\* context's error: it reads neither viaErr nor dials, whatever the state of the gate.
C7_DoneContextWins ==
    /\ [](\A d \in Dialers :
            (dcallAt[d].made /\ dcallAt[d].ctx) =>
                /\ dpc[d] \notin {"l157", "l162", "dialing"}
                /\ dpc[d] = "done" => dres[d] = ErrResult(CtxErr(d)))
    /\ [][\A d \in Dialers :
            (dctx[d] /\ dpc[d] \in {"select", "l152"}) =>
                /\ dpc'[d] \in {"select", "l152", "done"}
                /\ dpc'[d] = "done" => dres'[d] = ErrResult(CtxErr(d))]_vars

\* a call with a done context was made when the gate was closed and viaErr set
C7_Witness ==
    \E d \in Dialers :
        /\ dcallAt[d].ctx
        /\ dcallAt[d].viaErrSet
        /\ initChan = "closed"
        /\ dpc[d] = "done"

\* the state call d owns
DialLocal(d) == <<dpc[d], dctx[d], dcallAt[d], dials[d], dres[d]>>

\* C8: a step of a DialContext call, or the cancellation of its context, changes only
\* that call's own state: the forwarder's fields, Run, the watcher, the session and
\* every other call are left as they were.
C8_DialContextFrame ==
    [][\A d \in Dialers :
          DialLocal(d)' # DialLocal(d) =>
              /\ UNCHANGED <<fvars, rvars>>
              /\ \A e \in Dialers \ {d} : DialLocal(e)' = DialLocal(e)]_vars

\* one call's context was cancelled while it dialled, another call got its connection, Run returned nil
C8_Witness ==
    \E d, e \in Dialers :
        /\ d # e
        /\ dpc[d] = "done" /\ dres[d].kind = "dial" /\ dctx[d]
        /\ dpc[e] = "done" /\ dres[e].kind = "dial" /\ dres[e].conn
        /\ ret.done /\ ret.err = NilErr

\* C9: once Run is entered, a cancelled context means a cancelled run context; a
\* cancelled context leads to Run returning; an early error leaves no session behind
\* and leads to Run returning.
C9_CancelStopsRun ==
    /\ []((ctxDone /\ pc # "idle") => runCtxDone)
    /\ (ctxDone /\ pc # "idle") ~> ret.done
    /\ [](EarlyErr(err) => session = "none")
    /\ EarlyErr(err) ~> ret.done

\* the context was cancelled while ForwardPorts ran, and Run returned what ForwardPorts returned
C9_Witness ==
    /\ ctxDone
    /\ ~cancelFirst
    /\ session = "terminated"
    /\ ret.done

\* C10: for an address of fewer than two '.'-separated components NewPodForwarder
\* returns an error and no forwarder, and neither Run nor DialContext is ever entered.
C10_RejectsShortAddress ==
    NumComponents(args.addr) < 2 =>
        /\ newRes # "pending" => (newRes = "err" /\ newErr # NilErr /\ f = NoForwarder)
        /\ pc = "idle"
        /\ \A d \in Dialers : dpc[d] = "idle"

\* NewPodForwarder was called with a non-empty address without a '.'
C10_Witness ==
    /\ NumComponents(args.addr) < 2
    /\ Len(args.addr) > 0
    /\ newRes = "err"

\* C11: viaAddr is written at most once, and only while initChan is still open.
C11_ViaAddrWrittenBeforeGateCloses ==
    [][(wpc = "l211" /\ wpc' # wpc) => (initChan = "open" /\ viaAddr = <<>>)]_vars

\* C12: no write of viaErr or viaAddr is made while initChan is closed and a DialContext
\* call that has yet to read the field is in flight.
C12_NoWriteAfterGateCloses ==
    [][/\ viaErr' # viaErr =>
            ~(initChan = "closed" /\ \E d \in Dialers : dpc[d] \in {"select", "l152", "l157"})
       /\ viaAddr' # viaAddr =>
            ~(initChan = "closed" /\ \E d \in Dialers : dpc[d] \in {"select", "l152", "l157", "l162"})]_vars

\* call d, with a live context, waited at the gate before anything could close it
BlockedAtResolution(d) ==
    /\ dcallAt[d].made
    /\ ~dcallAt[d].ready
    /\ ~dcallAt[d].returned
    /\ ~dctx[d]

\* C13: of two calls with live contexts that waited at the gate when it was closed,
\* never does one get to the dial function while the other returns the terminal error.
C13_WaitersAgree ==
    \A d, e \in Dialers :
        (BlockedAtResolution(d) /\ BlockedAtResolution(e) /\ dres[d].kind = "dial") =>
            ~(dpc[e] = "done" /\ dres[e].kind = "err")

\* C14: Run stops at the first failing step and returns that step's error: a failed
\* SplitHostPort leaves the port finder uncalled, a failed port finder the factory, a
\* failed factory the watcher and ForwardPorts; err is assigned once; ForwardPorts is
\* called at most once; Run returns err, which on the last path is what ForwardPorts returned.
C14_StopsAtFirstFailure ==
    /\ [](/\ err.msg \in {"missing port in address", "too many colons in address"} =>
                (localPort = <<>> /\ readyChan = "none" /\ fwdPorts = <<>>)
          /\ err = ErrPortFinder =>
                (localPort = <<>> /\ readyChan = "none" /\ fwdPorts = <<>>)
          /\ EarlyErr(err) => (wpc = "none" /\ session = "none" /\ pc \notin {"l222", "fwd", "l223"})
          /\ ret.done => ret.err = err
          /\ (ret.done /\ ~EarlyErr(ret.err)) => (session = "terminated" /\ ret.err \in {NilErr, ErrForward}))
    /\ [][err' # err => (err = NilErr /\ pc' \in {"dCancel", "l223"})]_vars
    /\ [][(pc' = "fwd" /\ pc # "fwd") => session = "created"]_vars
    /\ [][pc' = "l223" /\ pc # "l223" => pc = "fwd"]_vars

\* the factory failed, and Run returned the factory's error
C14_Witness ==
    /\ ret.done
    /\ ret.err = ErrFactory
    /\ localPort # <<>>
    /\ fwdPorts # <<>>

\* C18: when Run has returned the run context is cancelled, and the watcher goroutine,
\* once started, terminates after Run returned, whether or not the session was ready.
C18_WatcherTerminates ==
    /\ [](ret.done => runCtxDone)
    /\ (ret.done /\ wpc # "none") ~> (wpc \in {"exitDone", "exitReady"})

\* Run returned and the watcher left through <-runCtx.Done() of a session that never was ready
C18_Witness ==
    /\ ret.done
    /\ ~ctxDone
    /\ readyChan = "open"
    /\ wpc = "exitDone"

\* C15: a DialContext call waiting at the gate can leave the select as soon as its own
\* context is done, whether or not the gate is closed, and then returns that context's
\* error, also when the gate never resolves.
C15_WaitEndsWithOwnContext ==
    /\ [](\A d \in Dialers : (dpc[d] = "select" /\ dctx[d]) => ENABLED DialSelect(d))
    /\ \A d \in OneCaller :
          (dpc[d] = "select" /\ dctx[d]) ~> (dpc[d] = "done" /\ dres[d] = ErrResult(CtxErr(d)))

\* a call made with a live context returned its context's error while Run was never started
C15_Witness ==
    \E d \in Dialers :
        /\ dcallAt[d].made
        /\ ~dcallAt[d].ctx
        /\ pc = "idle"
        /\ initChan = "open"
        /\ dpc[d] = "done"
        /\ dres[d] = ErrResult(CtxErr(d))

\* C16: whatever is done with one forwarder, calling Run again included,
\* close(initChan) is executed only while initChan is open, and never panics.
C16_NoSecondClose ==
    [][closeCalls' # closeCalls => (initChan = "open" /\ ~panicked')]_vars

\* the k-th '.'-separated component of addr, read off the positions of its dots
DotPositions(addr) == {i \in 1..Len(addr) : addr[i] = "."}
NthDot(addr, k) ==
    CHOOSE i \in DotPositions(addr) : Cardinality({j \in DotPositions(addr) : j <= i}) = k
Component(addr, k) ==
    SubSeq(addr,
           IF k = 1 THEN 1 ELSE NthDot(addr, k - 1) + 1,
           IF k = NumComponents(addr) THEN Len(addr) ELSE NthDot(addr, k) - 1)

\* C17 as stated: NewPodForwarder succeeds exactly on the addresses of two or more
\* '.'-separated components, with podName the first and namespace the second component.
C17_AcceptsTwoComponents ==
    newRes # "pending" =>
        /\ (NumComponents(args.addr) >= 2) <=> (newRes = "ok")
        /\ newRes = "ok" => /\ f.podName = Component(args.addr, 1)
                            /\ f.namespace = Component(args.addr, 2)

\* C17 as amended: NewPodForwarder succeeds exactly on the addresses of three or more
\* '.'-separated components (a name, a namespace and a rest), with podName the first
\* and namespace the second component; every other address is rejected with
\* "unsupported pod address format" and no forwarder.
C17_AcceptsThreeComponents ==
    newRes # "pending" =>
        /\ (NumComponents(args.addr) >= 3) <=> (newRes = "ok")
        /\ newRes = "ok" => /\ f.podName = Component(args.addr, 1)
                            /\ f.namespace = Component(args.addr, 2)
                            /\ f.addr = args.addr
                            /\ newErr = NilErr
        /\ newRes = "err" => (newErr = ErrUnsupported(args.addr) /\ f = NoForwarder)

C17_Witness ==
    /\ newRes = "ok"
    /\ NumComponents(args.addr) = 3
    /\ f.podName = <<"a">>
    /\ f.namespace = <<>>

====
